---- MODULE Spec2Model ----
(***************************************************************************)
(* Model of ntfysender's NtfySender (src/_ntfysenderclass.py).             *)
(*                                                                         *)
(* A Python str is a sequence of code points, a bytes object a sequence of *)
(* byte values.  None is a value outside every set of strings.  The        *)
(* headers dict is a function from header names to values.                 *)
(*                                                                         *)
(* send_msg is modelled statement by statement (one action per store into  *)
(* self.headers, one for the call of requests.post, one for its outcome),  *)
(* so that calls of several threads on one instance can interleave.  Spec  *)
(* is the sequential use of the client (a call starts only when no other   *)
(* call is running), SpecConc the use from two threads without any lock.   *)
(***************************************************************************)
EXTENDS Integers, Sequences, FiniteSets, TLC

\* ------------------------------------------------------------------ bounds
MaxCalls == 2

\* --------------------------------------------------------------- constants
DefaultTimeout == 10

\* ------------------------------------------------------------------ values
None == <<-1>>

Threads == {1, 2}

\* "https://ntfy.sh/" and "alerts" shortened to one letter each
ServerUrls == {<<104>>}
DefaultTopics == {<<100>>}
\* None, "bob", "é"
Users == {None, <<98, 111, 98>>, <<233>>}
\* None, "secret", "p"
Passwords == {None, <<115, 101, 99, 114, 101, 116>>, <<112>>}

\* "", "D"
Titles == {<<>>, <<68>>}
\* "90%", "\"\\é"
Messages == {<<57, 48, 37>>, <<34, 92, 233>>}
\* None, "u"
LinkUrls == {None, <<117>>}
\* None, "t"
Topics == {None, <<116>>}
\* None, "a", "b"
TagsArgs == {None, <<97>>, <<98>>}
\* None, "i"
Icons == {None, <<105>>}
Timeouts == {DefaultTimeout}

\* what the HTTP call can do: a 2xx answer, a non-2xx answer, or an
\* exception of requests (ConnectionError, Timeout)
Outcomes == {"2xx", "non2xx", "ConnectionError", "Timeout"}

CallArgs ==
    [title : Titles, message : Messages, link_url : LinkUrls, topic : Topics,
     tags : TagsArgs, icon : Icons, timeout : Timeouts]

NoLocals == [title |-> None, message |-> None, link_url |-> None, topic |-> None,
             tags |-> None, icon |-> None, timeout |-> 0, topic_send |-> None]

NoRequest == [url |-> None, headers |-> <<>>, data |-> None, timeout |-> 0]

NoResult == [outcome |-> "none", result |-> "none"]

\* ------------------------------------------------------- str.encode (UTF-8)
RECURSIVE str_encode(_)
str_encode(s) ==
    IF Len(s) = 0 THEN <<>>
    ELSE LET c == Head(s)
             b == IF c < 128 THEN <<c>>
                  ELSE IF c < 2048 THEN <<192 + (c \div 64), 128 + (c % 64)>>
                  ELSE <<224 + (c \div 4096), 128 + ((c \div 64) % 64), 128 + (c % 64)>>
         IN  b \o str_encode(Tail(s))

\* bytes.decode (UTF-8)
RECURSIVE bytes_decode(_)
bytes_decode(b) ==
    IF Len(b) = 0 THEN <<>>
    ELSE IF b[1] < 128 THEN <<b[1]>> \o bytes_decode(Tail(b))
    ELSE IF b[1] < 224
         THEN <<(b[1] - 192) * 64 + (b[2] - 128)>> \o bytes_decode(SubSeq(b, 3, Len(b)))
    ELSE <<(b[1] - 224) * 4096 + (b[2] - 128) * 64 + (b[3] - 128)>>
             \o bytes_decode(SubSeq(b, 4, Len(b)))

\* ------------------------------------------------------- base64.b64encode
\* the standard alphabet: A-Z a-z 0-9 + /
B64Char(i) ==
    IF i < 26 THEN 65 + i
    ELSE IF i < 52 THEN 97 + (i - 26)
    ELSE IF i < 62 THEN 48 + (i - 52)
    ELSE IF i = 62 THEN 43
    ELSE 47

RECURSIVE b64encode(_)
b64encode(b) ==
    IF Len(b) = 0 THEN <<>>
    ELSE IF Len(b) = 1
         THEN <<B64Char(b[1] \div 4), B64Char((b[1] % 4) * 16), 61, 61>>
    ELSE IF Len(b) = 2
         THEN <<B64Char(b[1] \div 4), B64Char((b[1] % 4) * 16 + (b[2] \div 16)),
                B64Char((b[2] % 16) * 4), 61>>
    ELSE <<B64Char(b[1] \div 4), B64Char((b[1] % 4) * 16 + (b[2] \div 16)),
           B64Char((b[2] % 16) * 4 + (b[3] \div 64)), B64Char(b[3] % 64)>>
             \o b64encode(SubSeq(b, 4, Len(b)))

\* ------------------------------------------------------------- json.dumps
HexDigit(n) == IF n < 10 THEN 48 + n ELSE 97 + (n - 10)

\* json.encoder.py_encode_basestring_ascii: one character
EscapeChar(c) ==
    IF c = 34 THEN <<92, 34>>
    ELSE IF c = 92 THEN <<92, 92>>
    ELSE IF c = 10 THEN <<92, 110>>
    ELSE IF c = 13 THEN <<92, 114>>
    ELSE IF c = 9 THEN <<92, 116>>
    ELSE IF c = 8 THEN <<92, 98>>
    ELSE IF c = 12 THEN <<92, 102>>
    ELSE IF c < 32 \/ c > 126
         THEN <<92, 117, HexDigit(c \div 4096), HexDigit((c \div 256) % 16),
                HexDigit((c \div 16) % 16), HexDigit(c % 16)>>
    ELSE <<c>>

RECURSIVE EscapeChars(_)
EscapeChars(s) ==
    IF Len(s) = 0 THEN <<>> ELSE EscapeChar(Head(s)) \o EscapeChars(Tail(s))

\* a str as a JSON string
JsonString(s) == <<34>> \o EscapeChars(s) \o <<34>>

\* the names of the two keys of the body: "topic", "message"
KeyTopic == <<116, 111, 112, 105, 99>>
KeyMessage == <<109, 101, 115, 115, 97, 103, 101>>

\* json.dumps({"topic": topic_send, "message": message}): the keys in
\* insertion order, the default separators ", " and ": "
json_dumps(topic_send, message) ==
    <<123>> \o JsonString(KeyTopic) \o <<58, 32>> \o JsonString(topic_send)
            \o <<44, 32>>
            \o JsonString(KeyMessage) \o <<58, 32>> \o JsonString(message)
            \o <<125>>

\* ------------------------------------------------------------ the headers
Put(d, k, v) == [x \in (DOMAIN d) \cup {k} |-> IF x = k THEN v ELSE d[x]]

\* "Basic "
BasicPrefix == <<66, 97, 115, 105, 99, 32>>

\* str(None)
NoneText == <<78, 111, 110, 101>>

Text(x) == IF x = None THEN NoneText ELSE x

\* __set_auth with "and" for "or": one credential is enough to authenticate
set_auth_and(user, password) ==
    IF user = None /\ password = None
    THEN None
    ELSE BasicPrefix
             \o bytes_decode(b64encode(str_encode(Text(user) \o <<58>> \o Text(password))))

\* __set_auth without the colon between the user and the password
set_auth_nocolon(user, password) ==
    IF user = None \/ password = None
    THEN None
    ELSE BasicPrefix \o bytes_decode(b64encode(str_encode(user \o password)))

\* NtfySender.__set_auth: the value of self._auth
set_auth(user, password) ==
    IF user = None \/ password = None
    THEN None
    ELSE BasicPrefix \o bytes_decode(b64encode(str_encode(user \o <<58>> \o password)))

\* NtfySender.__set_header: the value of self.headers
set_header(a) ==
    IF a # None THEN Put(<<>>, "Authorization", a) ELSE <<>>

\* ------------------------------------------------------------------ state
VARIABLES
    ntfy_user,      \* the constructor's argument ntfy_user
    ntfy_password,  \* the constructor's argument ntfy_password
    server_url,     \* self.server_url
    default_topic,  \* self.default_topic
    auth,           \* self._auth
    headers,        \* self.headers
    pc,             \* per thread: the statement of send_msg it is at
    locals,         \* per thread: the arguments and locals of its call
    request,        \* per thread: the request requests.post was called with
    last,           \* how the latest call that ended did end
    supplied,       \* the latest tags and icon arguments that were not None
    n_calls,        \* the number of calls of send_msg so far
    n_posts,        \* the number of calls of requests.post so far
    interfered      \* per thread: another call stored into self.headers
                    \* since this call started

vars == <<ntfy_user, ntfy_password, server_url, default_topic, auth, headers,
          pc, locals, request, last, supplied, n_calls, n_posts, interfered>>

config == <<ntfy_user, ntfy_password, server_url, default_topic, auth>>

\* NtfySender.__init__
Init ==
    /\ ntfy_user \in Users
    /\ ntfy_password \in Passwords
    /\ server_url \in ServerUrls
    /\ default_topic \in DefaultTopics
    /\ auth = set_auth(ntfy_user, ntfy_password)
    /\ headers = set_header(auth)
    /\ pc = [t \in Threads |-> "idle"]
    /\ locals = [t \in Threads |-> NoLocals]
    /\ request = [t \in Threads |-> NoRequest]
    /\ last = NoResult
    /\ supplied = [tags |-> None, icon |-> None]
    /\ n_calls = 0
    /\ n_posts = 0
    /\ interfered = [t \in Threads |-> FALSE]

\* ---------------------------------------------------------------- send_msg
\* a store of thread t into self.headers is seen by every other running call
Running(u) == pc[u] \notin {"idle", "wait"}

Interfere(t) ==
    [u \in Threads |-> IF u # t /\ Running(u) THEN TRUE ELSE interfered[u]]

\* line 95 with the default topic always
topic_send_default(a) == default_topic

\* line 95
topic_send_of(a) == IF a.topic = None THEN default_topic ELSE a.topic

\* the call and line 95
Call(t, a) ==
    /\ pc[t] = "idle"
    /\ n_calls < MaxCalls
    /\ pc' = [pc EXCEPT ![t] = "l97"]
    /\ locals' = [locals EXCEPT ![t] =
                    [title |-> a.title, message |-> a.message,
                     link_url |-> a.link_url, topic |-> a.topic,
                     tags |-> a.tags, icon |-> a.icon, timeout |-> a.timeout,
                     topic_send |-> topic_send_of(a)]]
    /\ supplied' = [tags |-> IF a.tags # None THEN a.tags ELSE supplied.tags,
                    icon |-> IF a.icon # None THEN a.icon ELSE supplied.icon]
    /\ n_calls' = n_calls + 1
    /\ interfered' = [interfered EXCEPT ![t] = FALSE]
    /\ UNCHANGED <<config, ntfy_user, ntfy_password, headers, request, last, n_posts>>

\* line 97 storing the title only when it is not empty
title_headers_nonempty(h, a) == IF a.title # <<>> THEN Put(h, "Title", a.title) ELSE h

\* line 97 starting from an empty dict
title_headers_fresh(h, a) == Put(<<>>, "Title", a.title)

\* line 97
title_headers(h, a) == Put(h, "Title", a.title)

SetTitle(t) ==
    /\ pc[t] = "l97"
    /\ headers' = title_headers(headers, locals[t])
    /\ pc' = [pc EXCEPT ![t] = "l98"]
    /\ interfered' = Interfere(t)
    /\ UNCHANGED <<config, locals, request, last, supplied, n_calls, n_posts>>

\* line 98 storing the link only when there is one
click_headers_given(h, a) == IF a.link_url # None THEN Put(h, "Click", a.link_url) ELSE h

\* line 98
click_headers(h, a) == Put(h, "Click", a.link_url)

SetClick(t) ==
    /\ pc[t] = "l98"
    /\ headers' = click_headers(headers, locals[t])
    /\ pc' = [pc EXCEPT ![t] = "l100"]
    /\ interfered' = Interfere(t)
    /\ UNCHANGED <<config, locals, request, last, supplied, n_calls, n_posts>>

\* lines 100-101 dropping the entry when no tags are given
tags_headers_drop(h, a) ==
    IF a.tags # None THEN Put(h, "Tags", a.tags)
    ELSE [x \in (DOMAIN h) \ {"Tags"} |-> h[x]]

\* lines 100-101
tags_headers(h, a) == IF a.tags # None THEN Put(h, "Tags", a.tags) ELSE h

SetTags(t) ==
    /\ pc[t] = "l100"
    /\ headers' = tags_headers(headers, locals[t])
    /\ pc' = [pc EXCEPT ![t] = "l103"]
    /\ interfered' = IF locals[t].tags # None THEN Interfere(t) ELSE interfered
    /\ UNCHANGED <<config, locals, request, last, supplied, n_calls, n_posts>>

\* lines 103-104
icon_headers(h, a) == IF a.icon # None THEN Put(h, "Icon", a.icon) ELSE h

SetIcon(t) ==
    /\ pc[t] = "l103"
    /\ headers' = icon_headers(headers, locals[t])
    /\ pc' = [pc EXCEPT ![t] = "l106"]
    /\ interfered' = IF locals[t].icon # None THEN Interfere(t) ELSE interfered
    /\ UNCHANGED <<config, locals, request, last, supplied, n_calls, n_posts>>

\* lines 106-114 posting to the topic's own URL
post_request_topic_url(url, h, a) ==
    [url |-> url \o a.topic_send, headers |-> h,
     data |-> json_dumps(a.topic_send, a.message), timeout |-> a.timeout]

\* lines 106-114: the arguments requests.post is called with
post_request(url, h, a) ==
    [url |-> url, headers |-> h, data |-> json_dumps(a.topic_send, a.message),
     timeout |-> a.timeout]

Post(t) ==
    /\ pc[t] = "l106"
    /\ request' = [request EXCEPT ![t] = post_request(server_url, headers, locals[t])]
    /\ n_posts' = n_posts + 1
    /\ pc' = [pc EXCEPT ![t] = "wait"]
    /\ UNCHANGED <<config, headers, locals, last, supplied, n_calls, interfered>>

\* requests.post raises on a connection error and on a timeout and returns
\* the response whatever its status is
requests_post(o) ==
    IF o \in {"ConnectionError", "Timeout"} THEN o ELSE "response"

\* lines 106-114 inside a try that swallows the exception
send_msg_exit_caught(r) == "returned"

\* lines 106-114: send_msg has no try and does not look at the response: an
\* exception of requests.post leaves send_msg as it is, a response is dropped
\* and send_msg returns None
send_msg_exit(r) == IF r = "response" THEN "returned" ELSE r

\* requests.post comes back
Respond(t, o) ==
    /\ pc[t] = "wait"
    /\ last' = [outcome |-> o, result |-> send_msg_exit(requests_post(o))]
    /\ pc' = [pc EXCEPT ![t] = "idle"]
    /\ locals' = [locals EXCEPT ![t] = NoLocals]
    /\ request' = [request EXCEPT ![t] = NoRequest]
    /\ UNCHANGED <<config, headers, supplied, n_calls, n_posts, interfered>>

Step(t) ==
    \/ SetTitle(t)
    \/ SetClick(t)
    \/ SetTags(t)
    \/ SetIcon(t)
    \/ Post(t)
    \/ \E o \in Outcomes : Respond(t, o)

\* sequential use: a call starts when no call is running
NextSeq ==
    \E t \in Threads :
        \/ /\ \A u \in Threads : pc[u] = "idle"
           /\ \E a \in CallArgs : Call(t, a)
        \/ Step(t)

\* use from several threads; the calls differ in what they store into the
\* headers
ConcArgs ==
    {a \in CallArgs : /\ a.message = <<57, 48, 37>>
                      /\ a.topic = None
                      /\ a.icon = None
                      /\ (a.link_url = None <=> a.title = <<>>)}

NextConc ==
    \E t \in Threads :
        \/ \E a \in ConcArgs : Call(t, a)
        \/ Step(t)

Spec == Init /\ [][NextSeq]_vars

SpecConc == Init /\ [][NextConc]_vars

\* ================================================================ properties
InFlight(t) == pc[t] = "wait"

BothGiven == ntfy_user # None /\ ntfy_password # None

IsStr(x) == x \in Seq(Nat)

\* ---------------------------------------------------- a reader of JSON text
HexVal(c) ==
    IF c \in 48..57 THEN c - 48
    ELSE IF c \in 97..102 THEN c - 87
    ELSE IF c \in 65..70 THEN c - 55
    ELSE -1

NoString == [ok |-> FALSE, val |-> <<>>, next |-> 0]

Unescaped(c) ==
    IF c \in {34, 92, 47} THEN c
    ELSE IF c = 110 THEN 10
    ELSE IF c = 114 THEN 13
    ELSE IF c = 116 THEN 9
    ELSE IF c = 98 THEN 8
    ELSE IF c = 102 THEN 12
    ELSE -1

\* the characters of a JSON string from position i, up to its closing quote
RECURSIVE ScanString(_, _, _)
ScanString(s, i, acc) ==
    IF i > Len(s) THEN NoString
    ELSE IF s[i] = 34 THEN [ok |-> TRUE, val |-> acc, next |-> i + 1]
    ELSE IF s[i] = 92
         THEN IF i + 1 > Len(s) THEN NoString
              ELSE IF s[i + 1] = 117
                   THEN IF i + 5 > Len(s)
                           \/ \E k \in 2..5 : HexVal(s[i + k]) < 0
                        THEN NoString
                        ELSE ScanString(s, i + 6,
                                 Append(acc, 4096 * HexVal(s[i + 2]) + 256 * HexVal(s[i + 3])
                                             + 16 * HexVal(s[i + 4]) + HexVal(s[i + 5])))
              ELSE IF Unescaped(s[i + 1]) < 0 THEN NoString
              ELSE ScanString(s, i + 2, Append(acc, Unescaped(s[i + 1])))
    ELSE IF s[i] < 32 THEN NoString
    ELSE ScanString(s, i + 1, Append(acc, s[i]))

ParseString(s, i) ==
    IF i <= Len(s) /\ s[i] = 34 THEN ScanString(s, i + 1, <<>>) ELSE NoString

RECURSIVE SkipSpace(_, _)
SkipSpace(s, i) == IF i <= Len(s) /\ s[i] = 32 THEN SkipSpace(s, i + 1) ELSE i

NoObject == [ok |-> FALSE, pairs |-> <<>>]

\* the members of a JSON object of strings from position i, up to its closing
\* brace, which ends the text
RECURSIVE ParseMembers(_, _, _)
ParseMembers(s, i, acc) ==
    LET k == ParseString(s, i)
        c == SkipSpace(s, k.next)
        v == ParseString(s, SkipSpace(s, c + 1))
        e == SkipSpace(s, v.next)
    IN  IF ~k.ok \/ c > Len(s) \/ s[c] # 58 THEN NoObject
        ELSE IF ~v.ok \/ e > Len(s) THEN NoObject
        ELSE IF s[e] = 125
             THEN IF e = Len(s)
                  THEN [ok |-> TRUE, pairs |-> Append(acc, <<k.val, v.val>>)]
                  ELSE NoObject
        ELSE IF s[e] = 44
             THEN ParseMembers(s, SkipSpace(s, e + 1), Append(acc, <<k.val, v.val>>))
        ELSE NoObject

json_loads(s) ==
    IF IsStr(s) /\ Len(s) >= 2 /\ s[1] = 123
    THEN ParseMembers(s, SkipSpace(s, 2), <<>>)
    ELSE NoObject

\* ------------------------------------------------------ a reader of base64
B64Value(c) ==
    IF c \in 65..90 THEN c - 65
    ELSE IF c \in 97..122 THEN c - 71
    ELSE IF c \in 48..57 THEN c + 4
    ELSE IF c = 43 THEN 62
    ELSE IF c = 47 THEN 63
    ELSE -1

\* the bytes of a base64 text, or <<-1>> when the text is not base64
RECURSIVE b64decode(_)
b64decode(x) ==
    IF Len(x) = 0 THEN <<>>
    ELSE IF Len(x) < 4 \/ B64Value(x[1]) < 0 \/ B64Value(x[2]) < 0 THEN <<-1>>
    ELSE LET a == B64Value(x[1])
             b == B64Value(x[2])
             c == B64Value(x[3])
             d == B64Value(x[4])
         IN  IF x[3] = 61
             THEN IF Len(x) = 4 /\ x[4] = 61 /\ b % 16 = 0
                  THEN <<a * 4 + (b \div 16)>>
                  ELSE <<-1>>
             ELSE IF c < 0 THEN <<-1>>
             ELSE IF x[4] = 61
                  THEN IF Len(x) = 4 /\ c % 4 = 0
                       THEN <<a * 4 + (b \div 16), (b % 16) * 16 + (c \div 4)>>
                       ELSE <<-1>>
             ELSE IF d < 0 THEN <<-1>>
             ELSE LET rest == b64decode(SubSeq(x, 5, Len(x)))
                  IN  IF rest = <<-1>> THEN <<-1>>
                      ELSE <<a * 4 + (b \div 16), (b % 16) * 16 + (c \div 4),
                             (c % 4) * 64 + d>> \o rest

\* the UTF-8 bytes of "<user>:<password>" for the users and passwords of the model
CredentialBytes(user, password) ==
    LET u == IF user = <<233>> THEN <<195, 169>> ELSE user
    IN  u \o <<58>> \o password

\* h is "Basic " followed by the base64 of "<user>:<password>"
IsBasicOf(h, user, password) ==
    /\ IsStr(h)
    /\ Len(h) >= 6
    /\ SubSeq(h, 1, 6) = <<66, 97, 115, 105, 99, 32>>
    /\ b64decode(SubSeq(h, 7, Len(h))) = CredentialBytes(user, password)

\* "Basic Ym9iOnNlY3JldA=="
BobSecretHeader ==
    <<66, 97, 115, 105, 99, 32, 89, 109, 57, 105, 79, 110, 78, 108, 89, 51, 74, 108,
      100, 65, 61, 61>>

IsBobSecret == ntfy_user = <<98, 111, 98>> /\ ntfy_password = <<115, 101, 99, 114, 101, 116>>

\* ------------------------------------------------------------------ claims
\* C1: the body of every request is a JSON object with exactly the keys
\* "topic" and "message"; "message" is the message argument, "topic" the topic
\* argument when one is given and the client's default_topic when it is None.
C1_Body ==
    \A t \in Threads : InFlight(t) =>
        LET o == json_loads(request[t].data)
            Value(k) == o.pairs[CHOOSE i \in 1..2 : o.pairs[i][1] = k][2]
        IN  /\ o.ok
            /\ Len(o.pairs) = 2
            /\ {o.pairs[i][1] : i \in 1..2} = {KeyTopic, KeyMessage}
            /\ Value(KeyMessage) = locals[t].message
            /\ Value(KeyTopic) = IF locals[t].topic = None THEN default_topic
                                 ELSE locals[t].topic

\* a second call with the topic omitted and a message that needs escaping
C1_Witness ==
    \E t \in Threads :
        /\ InFlight(t)
        /\ n_calls = 2
        /\ locals[t].topic = None
        /\ locals[t].message = <<34, 92, 233>>

\* C2: with both credentials given, the Authorization header the client holds
\* and every request carries is "Basic " followed by the base64 of
\* "<ntfy_user>:<ntfy_password>"; "bob" and "secret" give
\* "Basic Ym9iOnNlY3JldA==".
C2_Authorization ==
    BothGiven =>
        /\ "Authorization" \in DOMAIN headers
        /\ IsBasicOf(headers["Authorization"], ntfy_user, ntfy_password)
        /\ IsBobSecret => headers["Authorization"] = BobSecretHeader
        /\ \A t \in Threads : InFlight(t) =>
              /\ "Authorization" \in DOMAIN request[t].headers
              /\ request[t].headers["Authorization"] = headers["Authorization"]

\* a request of the client of "bob" and "secret" is in flight
C2_Witness ==
    /\ IsBobSecret
    /\ \E t \in Threads :
          InFlight(t) /\ request[t].headers["Authorization"] = BobSecretHeader

\* C3: with one or both credentials absent, the client is constructed, its
\* headers hold no Authorization and no request carries one.
C3_Anonymous ==
    ~BothGiven =>
        /\ "Authorization" \notin DOMAIN headers
        /\ \A t \in Threads : InFlight(t) => "Authorization" \notin DOMAIN request[t].headers

\* a request of a client made with a user and no password is in flight
C3_Witness ==
    /\ ntfy_user # None
    /\ ntfy_password = None
    /\ \E t \in Threads : InFlight(t) /\ "Authorization" \notin DOMAIN request[t].headers

\* C4: the request of a call carries a Tags header only if that call supplied
\* tags, also after an earlier call on the same client supplied tags.
C4_TagsOnlyIfSupplied ==
    \A t \in Threads :
        InFlight(t) /\ locals[t].tags = None => "Tags" \notin DOMAIN request[t].headers

\* C5 as claimed: whenever the HTTP call fails, by network error, by timeout
\* or by a non-2xx answer, send_msg does not return normally.
C5_EveryFailureRaises ==
    last.outcome \in {"ConnectionError", "Timeout", "non2xx"} => last.result # "returned"

\* C5 amended: a network error and a timeout reach the caller as the error
\* requests raised, neither caught nor translated; after a non-2xx answer
\* send_msg returns normally.
C5_TransportFailureRaises ==
    /\ last.outcome \in {"ConnectionError", "Timeout"} => last.result = last.outcome
    /\ last.outcome = "non2xx" => last.result = "returned"

\* the second call has ended with a timeout
C5_Witness == n_calls = 2 /\ n_posts = 2 /\ last.outcome = "Timeout" /\ last.result = "Timeout"

\* C6: every send_msg call issues exactly one POST, to the client's
\* server_url, whatever the outcome; construction issues none: the number of
\* POSTs is the number of calls, less the calls that have not reached theirs.
C6_OnePostPerCall ==
    /\ n_posts = n_calls - Cardinality({t \in Threads : Running(t)})
    /\ (\A t \in Threads : pc[t] = "idle") => n_posts = n_calls
    /\ Cardinality({t \in Threads : InFlight(t)}) <= n_posts
    /\ \A t \in Threads : InFlight(t) => request[t].url = server_url

\* two calls have ended, the latest by a failure of its POST
C6_Witness ==
    /\ \A t \in Threads : pc[t] = "idle"
    /\ n_calls = 2
    /\ n_posts = 2
    /\ last.outcome \in {"ConnectionError", "Timeout"}

\* C7: with two calls running on one client at once, the request of one call
\* can carry the Title or Click the other call stored; a request carries a
\* value that is not its own call's only when another call stored into the
\* headers while its call was running.
C7_ForeignOnlyByRace ==
    \A t \in Threads :
        InFlight(t) /\ ~interfered[t] =>
            /\ "Title" \in DOMAIN request[t].headers
            /\ request[t].headers["Title"] = locals[t].title
            /\ "Click" \in DOMAIN request[t].headers
            /\ request[t].headers["Click"] = locals[t].link_url

\* the request of one call carries the Title of the other running call
C7_Witness ==
    \E t \in Threads : \E u \in Threads \ {t} :
        /\ InFlight(t)
        /\ pc[u] # "idle"
        /\ locals[u].title # locals[t].title
        /\ request[t].headers["Title"] = locals[u].title

\* C8: in sequential use the Tags (Icon) entry of a request is the latest
\* tags (icon) argument that was not None, of this call or an earlier one,
\* whether the earlier POST failed or not, and is absent only if no call gave
\* one; the keys of the client's headers never shrink.
C8_Entries(h) ==
    /\ "Tags" \in DOMAIN h <=> supplied.tags # None
    /\ "Tags" \in DOMAIN h => h["Tags"] = supplied.tags
    /\ "Icon" \in DOMAIN h <=> supplied.icon # None
    /\ "Icon" \in DOMAIN h => h["Icon"] = supplied.icon

C8_TagsPersist ==
    /\ [](\A t \in Threads : InFlight(t) => C8_Entries(request[t].headers))
    /\ [][DOMAIN headers \subseteq DOMAIN headers']_vars

\* a call without tags and icon, after a call whose POST failed, carries both
C8_Witness ==
    \E t \in Threads :
        /\ InFlight(t)
        /\ n_calls = 2
        /\ last.outcome = "ConnectionError"
        /\ locals[t].tags = None
        /\ locals[t].icon = None
        /\ "Tags" \in DOMAIN request[t].headers
        /\ request[t].headers["Tags"] = <<98>>
        /\ "Icon" \in DOMAIN request[t].headers
        /\ request[t].headers["Icon"] = <<105>>

\* C9: in sequential use the Title and Click entries of a request are the
\* call's own title and link_url: Title is there for the empty title, Click is
\* there with the value None when link_url is omitted.
C9_TitleAndClick ==
    \A t \in Threads : InFlight(t) =>
        /\ "Title" \in DOMAIN request[t].headers
        /\ request[t].headers["Title"] = locals[t].title
        /\ "Click" \in DOMAIN request[t].headers
        /\ request[t].headers["Click"] = locals[t].link_url
        /\ locals[t].link_url = None => ~IsStr(request[t].headers["Click"])

\* a second call with the empty title and no link
C9_Witness ==
    \E t \in Threads :
        /\ InFlight(t)
        /\ n_calls = 2
        /\ locals[t].title = <<>>
        /\ locals[t].link_url = None
        /\ request[t].headers["Title"] = <<>>
        /\ request[t].headers["Click"] = None

\* C10: send_msg leaves the authentication and the configuration alone: the
\* headers hold Authorization iff both credentials were given, with the value
\* computed at construction, and server_url and default_topic do not change.
C10_ConfigUnchanged ==
    /\ []("Authorization" \in DOMAIN headers <=> BothGiven)
    /\ []("Authorization" \in DOMAIN headers => headers["Authorization"] = auth)
    /\ [][/\ server_url' = server_url
          /\ default_topic' = default_topic
          /\ auth' = auth]_vars

\* two calls have ended on an authenticated client, the latest by a failure
C10_Witness ==
    /\ BothGiven
    /\ \A t \in Threads : pc[t] = "idle"
    /\ n_calls = 2
    /\ last.outcome = "Timeout"
    /\ "Authorization" \in DOMAIN headers

====
